---- MODULE Spec2Model ----
(***************************************************************************)
(* A model of aiorobot/robot.py: the scoped session (Robot.__aenter__ /    *)
(* Robot.__aexit__ as used by get_robot) and the event engine              *)
(* (RobotEvents): the callback table, the dispatch loop _iter_events, the  *)
(* three ways of consuming it (__aiter__, current, process) and the        *)
(* callback tasks it spawns on the asyncio event loop.                     *)
(*                                                                         *)
(* aiorobot/driver.py is not part of the sources at hand.  What the model  *)
(* needs of it (the transport context returned by get_driver, the event    *)
(* source get_events, the event type objects) follows the design           *)
(* document; those definitions say so in their comments.                   *)
(***************************************************************************)
EXTENDS Integers, Sequences, FiniteSets, TLC

\* ------------------------------------------------------------------ bounds
\* Events the transport emits in one run.
MaxEvents == 2
\* Handler registrations (table entries written) in one run.
MaxRegs == 2
\* Calls of Robot.__aexit__ made after the scope was left.
MaxClose == 1

\* ------------------------------------------------------------ vocabulary
\* Event names, the keys of the callback table (event.event_name).
Kinds == {"bump", "color"}

\* Event type objects (instances of driver._Event) and the name each carries.
EventTypes == {"BumpEvent", "ColorEvent"}

TypeEventName(t) == IF t = "BumpEvent" THEN "bump" ELSE "color"

None == 0

Range(q) == {q[i] : i \in DOMAIN q}

Pos(q, x) == CHOOSE i \in DOMAIN q : q[i] = x

VARIABLES
    pc,          \* position of the caller in get_robot's scope
    ctx,         \* Robot._ctx: "none" or "set"
    drv,         \* Robot._driver: "none" or "set"
    events,      \* Robot.events: "none" or "built"
    color,       \* Robot.color: "none" (no such attribute yet) or "built"
    entered,     \* completed __aenter__ of the transport context
    released,    \* calls of __aexit__ of the transport context
    closeCalls,  \* calls of Robot.__aexit__
    closeRaised, \* calls of Robot.__aexit__ that raised on a None _ctx
    built,       \* the components Robot.__aenter__ has constructed
    led,         \* the RobotLED and its requests: [anim, color, sent, device,
                 \* supplied]
    reader,      \* the RobotColor and the call made on it: [calib, call,
                 \* result]
    en,          \* the enabling of event sources: [enabled, sent, reported]
    run,         \* a call of run_robot: [pc, init, callbacks, steps]
    emitted,     \* kinds of the events emitted by the transport, in order
    buffer,      \* ids of the events queued in the transport, oldest first
    table,       \* RobotEvents._callbacks: a set of <<key, registration>>
    regs,        \* registrations made so far: [kind, at]
    iter,        \* the running iteration of _iter_events
    handle,      \* process(wait=False) has returned its task to the caller
    cancelled,   \* the consumer of the iteration was cancelled
    pulled,      \* ids of the events the loop got from get_events
    yielded,     \* ids of the events _iter_events yielded
    received,    \* ids of the events handed to a manual consumer
    invoked,     \* callback invocations of the loop: [ev, reg]
    tstate,      \* state of the task of each invocation
    ready,       \* the event loop's queue of tasks not started yet
    startOrder   \* invocations in the order their tasks started

robotVars == <<pc, ctx, drv, events, color, entered, released, closeCalls,
               closeRaised>>
\* led.anim and led.color are RobotLED._anim and ._color, led.sent the last
\* set_led_animation request handed to the driver, led.device the last one
\* the device accepted, led.supplied the colour of the most recent call that
\* supplied one.
ledVars == <<led>>
\* reader.calib is RobotColor.black_k, red_k, green_k, blue_k, reader.call the
\* call made on the RobotColor, reader.result what it returned or raised.
colorVars == <<reader>>
\* en.enabled is the set of devices whose events the robot has enabled,
\* en.sent the last enable/disable request handed to the driver, en.reported
\* <<set>> returned by get_enabled since that request, or <<>>.
enableVars == <<en>>
\* run.pc is where a call of run_robot stands ("none": no such call),
\* run.init its init argument, run.callbacks the event names of the callbacks
\* given to it, run.steps the steps it has taken, in order.
runVars == <<run>>
\* The state the components hold once constructed.
partVars == <<ledVars, colorVars, enableVars, runVars>>
compVars == <<built, partVars>>
sessionVars == <<robotVars, compVars>>
tableVars == <<table, regs>>
loopVars == <<iter, handle, cancelled, pulled, yielded, received, invoked>>
taskVars == <<tstate, ready, startOrder>>
vars == <<sessionVars, emitted, buffer, tableVars, loopVars, taskVars>>
\* Everything but the state of the components.
engineVars == <<robotVars, emitted, buffer, tableVars, loopVars, taskVars>>

\* mode: who consumes; loop: the argument of _iter_events; st: where the
\* generator stands; k: events queued when a drain started; snap: how many of
\* them the drain has still to return.
NoIter == [mode |-> "none", loop |-> FALSE, st |-> "none", k |-> 0, snap |-> 0]

\* The components of a Robot in the order __aenter__ constructs them.
ComponentOrder ==
    <<"events", "motor", "marker", "eraser", "color", "led", "music">>

\* Robot.__init__ and what exists before any session is opened.
RobotInit ==
    /\ pc = "start"
    /\ ctx = "none"
    /\ drv = "none"
    /\ events = "none"
    /\ color = "none"
    /\ entered = 0
    /\ released = 0
    /\ closeCalls = 0
    /\ closeRaised = 0
    /\ built = {}

\* RobotEvents.__init__ and the tasks of the event loop.
EngineInit ==
    /\ emitted = <<>>
    /\ buffer = <<>>
    /\ table = {}
    /\ regs = <<>>
    /\ iter = NoIter
    /\ handle = FALSE
    /\ cancelled = FALSE
    /\ pulled = <<>>
    /\ yielded = <<>>
    /\ received = <<>>
    /\ invoked = <<>>
    /\ tstate = <<>>
    /\ ready = <<>>
    /\ startOrder = <<>>

\* The colour triples used as arguments; channels are bytes.
Channel == {0, 255}
Colors == Channel \X Channel \X Channel
\* color=None
NoColor == <<>>
Black == <<0, 0, 0>>

\* driver.LEDAnimation, and _anim before the first update.
Animations == {"OFF", "ON", "BLINK", "SPIN"}
NoAnim == "None"
NoRequest == [anim |-> NoAnim, rgb |-> NoColor, ok |-> TRUE]

\* RobotLED.__init__
LedInit ==
    led = [anim |-> NoAnim, color |-> Black, sent |-> NoRequest,
           device |-> NoRequest, supplied |-> Black]

\* COLOR_CALIBRATION
BlackK == 400
RedK == 600
GreenK == 200
BlueK == 700
COLOR_CALIBRATION ==
    [black |-> BlackK, red |-> RedK, green |-> GreenK, blue |-> BlueK]

NoCall == [op |-> "none", args |-> <<>>]
\* A call that has not returned yet.
NoResult == [err |-> "pending", val |-> <<>>]

\* RobotColor.__init__: reset() loads COLOR_CALIBRATION.
ColorInit ==
    reader = [calib |-> COLOR_CALIBRATION, call |-> NoCall, result |-> NoResult]

\* driver.Devices and driver.Devices.ALL
DeviceSet == {"bumpers", "color", "touch"}
ALL == DeviceSet
NoEnableRequest == [by |-> "none", op |-> "none", devs |-> {}]

\* No request made through RobotEvents yet; nothing enabled on the robot.
EnableInit ==
    en = [enabled |-> {}, sent |-> NoEnableRequest, reported |-> <<>>]

\* The session is used directly, not through run_robot.
NoRun ==
    run = [pc |-> "none", init |-> FALSE, callbacks |-> {}, steps |-> <<>>]

\* The components as their constructors leave them.
CompInit ==
    /\ LedInit
    /\ ColorInit
    /\ EnableInit
    /\ NoRun

Init == RobotInit /\ EngineInit /\ CompInit

\* A session entered without error: discover() found a device and
\* Robot.__aenter__ returned.
Opened ==
    /\ pc = "body"
    /\ ctx = "set"
    /\ drv = "set"
    /\ events = "built"
    /\ color = "built"
    /\ entered = 1
    /\ released = 0
    /\ closeCalls = 0
    /\ closeRaised = 0
    /\ built = Range(ComponentOrder)

OpenedInit == Opened /\ EngineInit /\ CompInit

\* ----------------------------------------------------------------- session
\* get_robot: discover(), then robots[0]; an empty list raises IndexError
\* before any Robot is entered.
Discover(found) ==
    /\ pc = "start"
    /\ pc' = IF found THEN "discovered" ELSE "error"
    /\ UNCHANGED <<ctx, drv, events, color, entered, released, closeCalls,
                   closeRaised, compVars>>
    /\ UNCHANGED <<emitted, buffer, tableVars, loopVars, taskVars>>

\* Robot.__aenter__, entered by `async with robots[0]`.  openOk: the transport
\* context's __aenter__ returns; calibOk: COLOR_CALIBRATION holds only the
\* keywords calibrate() accepts (RobotColor.__init__ -> reset -> calibrate
\* raises TypeError otherwise).  An exception leaving __aenter__ leaves the
\* `async with`, which then does not call __aexit__.
\* The components constructed when the constructor of RobotColor raises
\* (calibOk false) or not.
Constructed(calibOk) ==
    IF calibOk THEN Range(ComponentOrder)
    ELSE Range(SubSeq(ComponentOrder, 1, Pos(ComponentOrder, "color") - 1))

\* Faulty variant of AEnter: the components are constructed before the
\* transport context is entered.
AEnterBuildFirst(openOk, calibOk) ==
    /\ pc = "discovered"
    /\ ctx' = "set"
    /\ events' = "built"
    /\ color' = IF calibOk THEN "built" ELSE "none"
    /\ built' = Constructed(calibOk)
    /\ IF openOk /\ calibOk
       THEN /\ drv' = "set"
            /\ entered' = entered + 1
            /\ pc' = "body"
       ELSE /\ pc' = "error"
            /\ UNCHANGED <<drv, entered>>
    /\ UNCHANGED <<released, closeCalls, closeRaised, partVars>>
    /\ UNCHANGED <<emitted, buffer, tableVars, loopVars, taskVars>>

AEnter(openOk, calibOk) ==
    /\ pc = "discovered"
    /\ ctx' = "set"
    /\ IF ~openOk
       THEN /\ pc' = "error"
            /\ UNCHANGED <<drv, events, color, entered, built>>
       ELSE /\ drv' = "set"
            /\ entered' = entered + 1
            /\ events' = "built"
            /\ color' = IF calibOk THEN "built" ELSE "none"
            /\ built' = Constructed(calibOk)
            /\ pc' = IF calibOk THEN "body" ELSE "error"
    /\ UNCHANGED <<released, closeCalls, closeRaised, partVars>>
    /\ UNCHANGED <<emitted, buffer, tableVars, loopVars, taskVars>>

\* Robot.__aexit__, line 63: self._ctx.__aexit__ raises AttributeError when
\* self._ctx is None.
AExitRaises == ctx = "none"

\* Robot.__aexit__ up to its suspension point: the call either raises at
\* once, or calls the transport context's __aexit__ and awaits it, with both
\* fields still set.
AExit ==
    /\ closeCalls' = closeCalls + 1
    /\ IF AExitRaises
       THEN /\ closeRaised' = closeRaised + 1
            /\ UNCHANGED released
       ELSE /\ released' = released + 1
            /\ UNCHANGED closeRaised
    /\ UNCHANGED <<ctx, drv>>

\* How the awaited exit of the transport context ends: it returns, it
\* raises, or the caller is cancelled while suspended in it.
AwaitOutcomes == {"return", "raise", "cancel"}

\* Robot.__aexit__ from its suspension point on: lines 64-65 reset both
\* fields when the await returns; an exception out of the await leaves the
\* call before them.
AExitResume(outcome) ==
    /\ ctx' = IF outcome = "return" THEN "none" ELSE ctx
    /\ drv' = IF outcome = "return" THEN "none" ELSE drv
    /\ UNCHANGED <<released, closeCalls, closeRaised>>

\* The body of the scope ends, by one of its exit paths (it returns, it
\* raises, it is cancelled), and the `async with` calls Robot.__aexit__ with
\* the exception, if any; Robot.__aexit__ does the same on all three.
ExitPaths == {"return", "raise", "cancel"}

ScopeExit(path) ==
    /\ pc = "body"
    /\ AExit
    /\ pc' = IF AExitRaises THEN "left" ELSE "exiting"
    /\ UNCHANGED <<events, color, entered, compVars>>
    /\ UNCHANGED <<emitted, buffer, tableVars, loopVars, taskVars>>

\* Robot.__aexit__ called once more after the scope was left.
Close ==
    /\ pc = "left"
    /\ closeCalls < 1 + MaxClose
    /\ AExit
    /\ pc' = IF AExitRaises THEN "left" ELSE "exiting"
    /\ UNCHANGED <<events, color, entered, compVars>>
    /\ UNCHANGED <<emitted, buffer, tableVars, loopVars, taskVars>>

\* The call of Robot.__aexit__ that is suspended in the exit of the transport
\* context goes on and ends; the scope, if it was not left yet, is left.
ExitResume(outcome) ==
    /\ pc = "exiting"
    /\ AExitResume(outcome)
    /\ pc' = "left"
    /\ UNCHANGED <<events, color, entered, compVars>>
    /\ UNCHANGED <<emitted, buffer, tableVars, loopVars, taskVars>>

\* --------------------------------------------------------------- transport
\* The transport emits an event of kind k while the connection is open; the
\* driver queues it.
Emit(k) ==
    /\ entered > released
    /\ Len(emitted) < MaxEvents
    /\ emitted' = Append(emitted, k)
    /\ buffer' = Append(buffer, Len(emitted) + 1)
    /\ UNCHANGED <<sessionVars, tableVars, loopVars, taskVars>>

\* ---------------------------------------------------------- callback table
\* Faulty variant of DictSet, d.setdefault(k, v): a key already present keeps
\* its value.
DictSetDefault(d, k, v) ==
    IF \E p \in d : p[1] = k THEN d ELSE d \cup {<<k, v>>}

\* A dict as a set of <<key, value>> pairs: d[k] = v drops the pair stored
\* under k, if any, and stores <<k, v>>.
DictSet(d, k, v) == {p \in d : p[1] # k} \cup {<<k, v>>}

\* d.get(k, None)
DictGet(d, k) ==
    LET s == {p \in d : p[1] = k}
    IN IF s = {} THEN None ELSE (CHOOSE p \in s : TRUE)[2]

\* Faulty variant of EventNameOf: the argument is used as given, type object
\* or name.
EventNameRaw(event_type) == event_type

\* set_callback's key: event_type.event_name for an instance of driver._Event,
\* the argument itself otherwise.
EventNameOf(event_type) ==
    IF event_type \in EventTypes THEN TypeEventName(event_type) ELSE event_type

\* The kind of events a key of the table stands for.
KeyKind(key) == IF key \in EventTypes THEN TypeEventName(key) ELSE key

Registration(k) == [kind |-> k, at |-> Len(pulled)]

\* set_callback(event_type, callback)
SetCallback(event_type) ==
    /\ pc = "body"
    /\ Len(regs) < MaxRegs
    /\ regs' = Append(regs, Registration(KeyKind(event_type)))
    /\ table' = DictSet(table, EventNameOf(event_type), Len(regs) + 1)
    /\ UNCHANGED <<sessionVars, emitted, buffer, loopVars, taskVars>>

\* The keys of a mapping in a fixed order.
KindOrder == <<"bump", "color">>

KeysOf(m) == SelectSeq(KindOrder, LAMBDA k : k \in DOMAIN m)

RECURSIVE DictUpdate(_, _, _)
\* d.update(m): each key of m stored in turn; the value of the i-th key is
\* the registration numbered base + i.
DictUpdate(d, keys, base) ==
    IF keys = <<>> THEN d
    ELSE DictUpdate(DictSet(d, Head(keys), base + 1), Tail(keys), base + 1)

\* set_callbacks(**callbacks): the keywords are event names.
SetCallbacks(m) ==
    /\ pc = "body"
    /\ Len(regs) + Len(KeysOf(m)) <= MaxRegs
    /\ regs' = regs \o [i \in 1..Len(KeysOf(m)) |-> Registration(KeysOf(m)[i])]
    /\ table' = DictUpdate(table, KeysOf(m), Len(regs))
    /\ UNCHANGED <<sessionVars, emitted, buffer, loopVars, taskVars>>

\* The keyword mappings given to set_callbacks: the handlers under each name.
Mappings == UNION {[S -> {"handler"}] : S \in (SUBSET Kinds) \ {{}}}

\* ------------------------------------------------------------ event source
\* driver.get_events(loop), from the design document: the events queued when
\* a drain starts are the only ones it returns; a continuous iteration
\* returns every event and waits when none is queued.
DrainSnapshot(it) ==
    IF it.st = "created" /\ ~it.loop THEN Len(buffer) ELSE it.snap

DrainSize(it) ==
    IF it.st = "created" /\ ~it.loop THEN Len(buffer) ELSE it.k

GetEventsAvailable(it) ==
    IF it.loop THEN buffer # <<>> ELSE DrainSnapshot(it) > 0

\* ----------------------------------------------------------- dispatch loop
\* Faulty variant of CreateTask: the new task is run before the tasks already
\* waiting.
CreateTaskFirst(q, t) == <<t>> \o q

\* asyncio.create_task: the new task joins the end of the event loop's queue.
CreateTask(q, t) == Append(q, t)

\* The iteration can be resumed: it has not ended, failed or been cancelled.
Resumable(st) == st \in {"created", "ready", "waiting"}

\* The consumer of the iteration is the caller's own `async for`.
Manual(mode) == mode \in {"aiter", "current"}

\* Faulty variant of IterEvents: the event is yielded before its callback is
\* dispatched, so on each turn the task spawned is the one for the event of
\* the turn before.
IterEventsYieldFirst(e, callOk) ==
    LET prev == IF pulled = <<>> THEN 0 ELSE pulled[Len(pulled)]
        cb == IF prev = 0 THEN None ELSE DictGet(table, emitted[prev])
        snap == DrainSnapshot(iter)
        next == IF iter.loop THEN 0 ELSE snap - 1
    IN /\ buffer' = Tail(buffer)
       /\ pulled' = Append(pulled, e)
       /\ IF cb = None
          THEN UNCHANGED <<invoked, taskVars>>
          ELSE /\ invoked' = Append(invoked, [ev |-> prev, reg |-> cb])
               /\ IF callOk
                  THEN /\ tstate' = Append(tstate, "scheduled")
                       /\ ready' = Append(ready, Len(invoked) + 1)
                       /\ UNCHANGED startOrder
                  ELSE /\ tstate' = Append(tstate, "raised")
                       /\ UNCHANGED <<ready, startOrder>>
       /\ IF cb # None /\ ~callOk
          THEN /\ iter' = [iter EXCEPT !.st = "failed", !.k = DrainSize(iter),
                                       !.snap = next]
               /\ UNCHANGED <<yielded, received>>
          ELSE /\ iter' = [iter EXCEPT !.st = "ready", !.k = DrainSize(iter),
                                       !.snap = next]
               /\ yielded' = Append(yielded, e)
               /\ received' = IF iter.mode \in {"aiter", "current"}
                              THEN Append(received, e) ELSE received

\* One turn of the `async for` of _iter_events on event e: look the callback
\* up by event.event_name, call it and wrap the coroutine in a task, then
\* yield the event.  callOk: evaluating
\* asyncio.create_task(callback(self._robot, *event)) returns.  It raises
\* when the handler does not take the event's fields, when it is a plain
\* function that raises, or when it returns no coroutine (create_task then
\* raises TypeError); the exception leaves the generator before the yield
\* and ends the iteration.
IterEvents(e, callOk) ==
    LET cb == DictGet(table, emitted[e])
        snap == DrainSnapshot(iter)
        next == IF iter.loop THEN 0 ELSE snap - 1
    IN /\ buffer' = Tail(buffer)
       /\ pulled' = Append(pulled, e)
       /\ IF cb = None
          THEN UNCHANGED <<invoked, taskVars>>
          ELSE /\ invoked' = Append(invoked, [ev |-> e, reg |-> cb])
               /\ IF callOk
                  THEN /\ tstate' = Append(tstate, "scheduled")
                       /\ ready' = CreateTask(ready, Len(invoked) + 1)
                       /\ UNCHANGED startOrder
                  ELSE /\ tstate' = Append(tstate, "raised")
                       /\ UNCHANGED <<ready, startOrder>>
       /\ IF cb # None /\ ~callOk
          THEN /\ iter' = [iter EXCEPT !.st = "failed", !.k = DrainSize(iter),
                                       !.snap = next]
               /\ UNCHANGED <<yielded, received>>
          ELSE /\ iter' = [iter EXCEPT !.st = "ready", !.k = DrainSize(iter),
                                       !.snap = next]
               /\ yielded' = Append(yielded, e)
               /\ received' = IF Manual(iter.mode) THEN Append(received, e)
                              ELSE received

\* RobotEvents.__aiter__: _iter_events(True), handed to the caller.
Aiter ==
    /\ pc = "body"
    /\ iter.mode = "none"
    /\ iter' = [mode |-> "aiter", loop |-> TRUE, st |-> "created", k |-> 0, snap |-> 0]
    /\ UNCHANGED <<handle, cancelled, pulled, yielded, received, invoked>>
    /\ UNCHANGED <<sessionVars, emitted, buffer, tableVars, taskVars>>

\* RobotEvents.current: _iter_events(False), handed to the caller.
Current ==
    /\ pc = "body"
    /\ iter.mode = "none"
    /\ iter' = [mode |-> "current", loop |-> FALSE, st |-> "created", k |-> 0, snap |-> 0]
    /\ UNCHANGED <<handle, cancelled, pulled, yielded, received, invoked>>
    /\ UNCHANGED <<sessionVars, emitted, buffer, tableVars, taskVars>>

\* RobotEvents.process(wait, loop): with wait the caller runs the loop itself;
\* without, the loop is wrapped in a task and the task is returned at once.
Process(wait, loop) ==
    /\ pc = "body"
    /\ iter.mode = "none"
    /\ iter' = [mode |-> IF wait THEN "process" ELSE "task", loop |-> loop,
                st |-> "created", k |-> 0, snap |-> 0]
    /\ handle' = ~wait
    /\ UNCHANGED <<cancelled, pulled, yielded, received, invoked>>
    /\ UNCHANGED <<sessionVars, emitted, buffer, tableVars, taskVars>>

\* The consumer asks for the next element (__anext__): an event that is
\* available is processed at once; otherwise a continuous iteration suspends
\* and a drain ends.
Anext(callOk) ==
    /\ iter.st \in {"created", "ready"}
    /\ IF GetEventsAvailable(iter)
       THEN IterEvents(Head(buffer), callOk)
       ELSE /\ iter' = [iter EXCEPT !.st = IF iter.loop THEN "waiting" ELSE "done",
                                    !.k = DrainSize(iter), !.snap = 0]
            /\ UNCHANGED <<buffer, pulled, yielded, received, invoked, taskVars>>
    /\ UNCHANGED <<sessionVars, emitted, tableVars, handle, cancelled>>

\* A suspended continuous iteration is resumed by the arrival of an event.
Wake(callOk) ==
    /\ iter.st = "waiting"
    /\ buffer # <<>>
    /\ IterEvents(Head(buffer), callOk)
    /\ UNCHANGED <<sessionVars, emitted, tableVars, handle, cancelled>>

\* Faulty variant of AfterCancel: the loop swallows the CancelledError and
\* goes on.
AfterCancelSwallowed(it) == it

\* CancelledError is thrown into the suspended consumer: it leaves the
\* `async for` of process and of _iter_events, which handle no exception.
AfterCancel(it) == [it EXCEPT !.st = "cancelled"]

\* The consumer of the iteration (the caller's task, or the task returned by
\* process(wait=False)) is cancelled.
Cancel ==
    /\ Resumable(iter.st)
    /\ ~cancelled
    /\ cancelled' = TRUE
    /\ iter' = AfterCancel(iter)
    /\ UNCHANGED <<handle, pulled, yielded, received, invoked>>
    /\ UNCHANGED <<sessionVars, emitted, buffer, tableVars, taskVars>>

\* ---------------------------------------------------------- callback tasks
\* The event loop runs the first step of the task at the head of its queue.
TaskStart ==
    /\ ready # <<>>
    /\ LET t == Head(ready)
       IN /\ tstate' = [tstate EXCEPT ![t] = "running"]
          /\ startOrder' = Append(startOrder, t)
    /\ ready' = Tail(ready)
    /\ UNCHANGED <<sessionVars, emitted, buffer, tableVars, loopVars>>

\* A running callback coroutine ends: it returns (ok), or it raises and the
\* exception stays in its task.  A coroutine that never completes stays
\* "running".
TaskFinish(t, ok) ==
    /\ t \in DOMAIN tstate
    /\ tstate[t] = "running"
    /\ tstate' = [tstate EXCEPT ![t] = IF ok THEN "done" ELSE "failed"]
    /\ UNCHANGED <<ready, startOrder>>
    /\ UNCHANGED <<sessionVars, emitted, buffer, tableVars, loopVars>>

\* ------------------------------------------------------------------ helpers
\* The events 1..n in emission order.
Upto(n) == [i \in 1..n |-> i]

KindOf(e) == emitted[e]

\* The turn of the loop on which event e was taken from the source.
PulledAt(e) == Pos(pulled, e)

\* The callback evaluation of invocation t failed: at the call (no task was
\* made) or in the body of the coroutine (its task failed).
HandlerFailed(t) == tstate[t] \in {"raised", "failed"}

\* ------------------------------------------------------------------- claims
\* C1: a consumer of continuous iteration (__aiter__) receives every emitted
\* event, each once, in emission order, whatever callbacks are registered:
\* once it has taken all the emitted events from the source, what it received
\* is exactly the emitted sequence, and what it received so far is always the
\* first events emitted.
C1_AiterReceivesAll ==
    iter.mode = "aiter" =>
        /\ received = Upto(Len(received))
        /\ buffer = <<>> => received = Upto(Len(emitted))

\* C2: a handler failure, in the handler's body or at the moment the loop
\* invokes it, does not reach the dispatch loop: the loop is not ended by it
\* and the event that triggered the handler is yielded.
C2_HandlerFailureIsolated ==
    \A t \in DOMAIN invoked :
        HandlerFailed(t) =>
            /\ iter.st # "failed"
            /\ invoked[t].ev \in Range(yielded)

\* C3: a second call of Robot.__aexit__ after a first successful one does not
\* raise, and the transport context is released exactly once over the two.
C3_SecondCloseDoesNotRaise ==
    closeCalls >= 2 => (closeRaised = 0 /\ released = 1)

\* C4: whenever the transport context was entered, it has been released
\* exactly once by the time the scope of get_robot is left, on every exit
\* path: the body returned, raised or was cancelled, or __aenter__ failed
\* after the transport context was entered.
C4_ReleasedOnEveryExitPath ==
    (pc \in {"left", "error"} /\ entered > 0) => released = 1

\* C5: a drain (RobotEvents.current) started with k events queued never
\* suspends, yields only those k events, in order, and has yielded all k of
\* them when it ends, whatever is emitted after it started.
C5_DrainYieldsQueued ==
    iter.mode = "current" =>
        /\ iter.st # "waiting"
        /\ received = Upto(Len(received))
        /\ iter.st # "created" => Len(received) <= iter.k
        /\ iter.st \in {"done", "failed"} => received = Upto(iter.k)

\* The registrations made for kind k before turn p of the loop.
RegsBefore(k, p) == {r \in DOMAIN regs : regs[r].kind = k /\ regs[r].at < p}

\* The invocations of the handler of registration r on event e.
InvocationsOf(e, r) ==
    {t \in DOMAIN invoked : invoked[t].ev = e /\ invoked[t].reg = r}

\* C6: a handler registered for kind K after M events were taken by the loop
\* is invoked for none of the events taken before the registration, and
\* exactly once for each event of kind K taken after it, for as long as no
\* later registration for K replaces it.
C6_NoRetroactiveDispatch ==
    \A r \in DOMAIN regs : \A p \in DOMAIN pulled :
        KindOf(pulled[p]) = regs[r].kind =>
            /\ p <= regs[r].at => InvocationsOf(pulled[p], r) = {}
            /\ (p > regs[r].at /\ \A r2 \in RegsBefore(regs[r].kind, p) : r2 <= r)
                   => Cardinality(InvocationsOf(pulled[p], r)) = 1

C6_Witness ==
    \E r \in DOMAIN regs : \E p1, p2 \in DOMAIN pulled :
        /\ p1 <= regs[r].at /\ regs[r].at < p2
        /\ KindOf(pulled[p1]) = regs[r].kind
        /\ KindOf(pulled[p2]) = regs[r].kind
        /\ InvocationsOf(pulled[p2], r) # {}

\* The task of invocation t has run its first step.
Started(t) == t \in Range(startOrder)

\* C7: of two events of the same kind, both dispatched to a handler, the task
\* spawned for the one emitted first starts before the task spawned for the
\* other.
C7_SameKindStartOrder ==
    \A i, j \in DOMAIN invoked :
        ( /\ invoked[i].ev < invoked[j].ev
          /\ KindOf(invoked[i].ev) = KindOf(invoked[j].ev)
          /\ tstate[i] # "raised"
          /\ Started(j) )
        => (Started(i) /\ Pos(startOrder, i) < Pos(startOrder, j))

C7_Witness ==
    \E i, j \in DOMAIN invoked :
        /\ invoked[i].ev < invoked[j].ev
        /\ KindOf(invoked[i].ev) = KindOf(invoked[j].ev)
        /\ Started(i) /\ Started(j)

\* C8: a handler invocation that never completes does not stall the pump:
\* every event the loop takes after the one that triggered it is yielded, and
\* an event that is available to a waiting loop can be taken.
C8_HungHandlerDoesNotStall ==
    \A t \in DOMAIN invoked :
        tstate[t] = "running" =>
            /\ \A p \in DOMAIN pulled :
                   p > PulledAt(invoked[t].ev) => pulled[p] \in Range(yielded)
            /\ (iter.st = "waiting" /\ buffer # <<>>) => ENABLED Wake(TRUE)

\* C9: process(wait=False) hands its task back before any event is taken;
\* cancelling the consumer of an iteration leaves the transport, the session
\* fields and the callback table as they were; and once cancelled, that
\* iteration takes no further event and invokes no further callback.
C9_CancelStopsDispatchOnly ==
    [][ /\ (~handle /\ handle') => (pulled' = pulled /\ iter'.st = "created")
        /\ (~cancelled /\ cancelled') =>
               UNCHANGED <<released, ctx, drv, table, invoked>>
        /\ cancelled => (invoked' = invoked /\ pulled' = pulled /\ cancelled')
      ]_vars

C9_Witness ==
    /\ cancelled
    /\ handle
    /\ iter.loop
    /\ released = 0
    /\ buffer # <<>>
    /\ DictGet(table, KindOf(Head(buffer))) # None
    /\ invoked # <<>>

\* The entries of the table that stand for kind k.
EntriesFor(k) == {p \in table : KeyKind(p[1]) = k}

C10_OnePerKind ==
    \A k \in Kinds :
        LET R == {r \in DOMAIN regs : regs[r].kind = k}
        IN /\ Cardinality(EntriesFor(k)) <= 1
           /\ R = {} => EntriesFor(k) = {}
           /\ R # {} => \E p \in EntriesFor(k) : \A r \in R : r <= p[2]

C10_DispatchStored ==
    [][ Len(pulled') > Len(pulled) =>
          LET e == pulled'[Len(pulled')]
              S == EntriesFor(KindOf(e))
          IN IF S = {} THEN invoked' = invoked
             ELSE \E p \in S : invoked' = Append(invoked, [ev |-> e, reg |-> p[2]])
      ]_vars

\* C10: the callback table holds at most one handler per event kind, the one
\* registered last for it, whether the kind was given as a type object or as
\* a name; and each event the loop takes is dispatched to the handler stored
\* for its kind at that moment, once, or to none when none is stored.
C10_LastRegistrationWins == []C10_OnePerKind /\ C10_DispatchStored

C10_Witness ==
    \E t \in DOMAIN invoked : \E r \in DOMAIN regs :
        /\ r < invoked[t].reg
        /\ regs[r].kind = regs[invoked[t].reg].kind
        /\ regs[r].at < PulledAt(invoked[t].ev)

\* ---------------------------------------------------------------------- LED
nonLedVars == <<engineVars, built, colorVars, enableVars, runVars>>

\* Faulty variant of LedUpdate: a call with no colour resets the stored colour.
LedUpdateResetColor(anim, c, ok) ==
    LET stored == IF c # NoColor THEN c ELSE Black
        request == [anim |-> anim, rgb |-> stored, ok |-> ok]
    IN /\ pc = "body"
       /\ led' = [anim |-> anim,
                  color |-> stored,
                  sent |-> request,
                  device |-> IF ok THEN request ELSE led.device,
                  supplied |-> IF c # NoColor THEN c ELSE led.supplied]
       /\ UNCHANGED nonLedVars

\* RobotLED._update(anim, color): store the mode, store the colour when one
\* is given, then await driver.set_led_animation with the stored values; ok
\* is whether that request succeeds.
LedUpdate(anim, c, ok) ==
    LET stored == IF c # NoColor THEN c ELSE led.color
        request == [anim |-> anim, rgb |-> stored, ok |-> ok]
    IN /\ pc = "body"
       /\ led' = [anim |-> anim,
                  color |-> stored,
                  sent |-> request,
                  device |-> IF ok THEN request ELSE led.device,
                  supplied |-> IF c # NoColor THEN c ELSE led.supplied]
       /\ UNCHANGED nonLedVars

LedOff(ok) == LedUpdate("OFF", NoColor, ok)
LedOn(c, ok) == LedUpdate("ON", c, ok)
LedBlink(c, ok) == LedUpdate("BLINK", c, ok)
LedSpin(c, ok) == LedUpdate("SPIN", c, ok)

LedNext ==
    \/ \E ok \in BOOLEAN : LedOff(ok)
    \/ \E c \in Colors \cup {NoColor}, ok \in BOOLEAN : LedOn(c, ok)
    \/ \E c \in Colors \cup {NoColor}, ok \in BOOLEAN : LedBlink(c, ok)
    \/ \E c \in Colors \cup {NoColor}, ok \in BOOLEAN : LedSpin(c, ok)

LedSpec == OpenedInit /\ [][LedNext]_vars

\* C12: the colour sent with every LED request is the colour of the most
\* recent call that supplied one, black if none did, and it is the stored
\* colour; a call that supplies no colour leaves the stored colour alone.
C12_SentColourIsLastSupplied ==
    /\ led.color = led.supplied
    /\ led.sent # NoRequest =>
        /\ led.sent.rgb = led.supplied
        /\ led.sent.anim = led.anim

\* A colour was supplied, then a later call without one changed the mode.
C12_Witness ==
    /\ led.supplied # Black
    /\ led.sent.anim = "OFF"
    /\ led.sent.rgb = led.supplied

\* C20: an LED update whose driver request fails leaves the stored mode and
\* colour as they were before the call.
C20_FailedUpdateKeepsState ==
    [][(led'.sent.ok = FALSE /\ led' # led) =>
          (led'.anim = led.anim /\ led'.color = led.color)]_vars

\* ------------------------------------------------------------ colour reader
nonColorVars == <<engineVars, built, ledVars, enableVars, runVars>>

Max2(a, b) == IF a >= b THEN a ELSE b
Min2(a, b) == IF a <= b THEN a ELSE b

\* The number of positions and the number of positions one sensor read
\* returns.
Positions == 32
SensorSize == 8

\* Optional integer arguments: <<>> is None, <<n>> is n.
NoArg == <<>>
Arg(n) == <<n>>

\* The four raw readings (black, red, green, blue) of position p, one fixed
\* sample per position, different at every position.
RawAt(p) == <<p, 17 * p + 40, 3 * p + 100, 900 - 20 * p>>

\* _get_sensor_data: the readings of one sensor, zipped per position.
SensorData(sensor_idx) ==
    [i \in 1..SensorSize |-> RawAt(SensorSize * sensor_idx + i - 1)]
\* driver.ColorSensor(sensor_idx) accepts the sensors there are.
ValidSensor(sensor_idx) ==
    sensor_idx >= 0 /\ sensor_idx < Positions \div SensorSize

\* _normalize_color_comp: int(255 * comp / a + b) clamped to 255, comp
\* clamped from below to 0.
NormalizeColorComp(comp, a, b) ==
    Min2((255 * Max2(comp, 0) + a * b) \div a, 255)

\* Faulty variant of NormalizeColor: the black level is not subtracted from
\* the channels.
NormalizeColorNoDark(k, raw) ==
    LET black == NormalizeColorComp(raw[1], k.black, 0)
    IN  <<NormalizeColorComp(raw[2], k.red, black),
          NormalizeColorComp(raw[3], k.green, black),
          NormalizeColorComp(raw[4], k.blue, black)>>

\* _normalize_color under the calibration k; raw = <<black, red, green, blue>>.
NormalizeColor(k, raw) ==
    LET red == raw[2] - raw[1]
        green == raw[3] - raw[1]
        blue == raw[4] - raw[1]
        black == NormalizeColorComp(raw[1], k.black, 0)
    IN  <<NormalizeColorComp(red, k.red, black),
          NormalizeColorComp(green, k.green, black),
          NormalizeColorComp(blue, k.blue, black)>>

\* slice(start, stop, step).indices(length), step not 0.
SliceIndices(start, stop, step, length) ==
    LET st == IF step = NoArg THEN 1 ELSE step[1]
        lower == IF st > 0 THEN 0 ELSE -1
        upper == IF st > 0 THEN length ELSE length - 1
        Clamp(x) == IF x < 0 THEN Max2(x + length, lower) ELSE Min2(x, upper)
        a == IF start = NoArg THEN (IF st < 0 THEN upper ELSE lower)
             ELSE Clamp(start[1])
        b == IF stop = NoArg THEN (IF st < 0 THEN lower ELSE upper)
             ELSE Clamp(stop[1])
    IN  <<a, b, st>>

\* list(range(start, stop, step)), step not 0.
PyRange(start, stop, step) ==
    LET n == IF step > 0
             THEN Max2(0, (stop - start + step - 1) \div step)
             ELSE Max2(0, (start - stop - step - 1) \div (-step))
    IN  [i \in 1..n |-> start + (i - 1) * step]

\* lst[start:stop:step] on a list; lists are indexed from 0 in the code, from
\* 1 here.
ListSlice(lst, start, stop, step) ==
    LET ind == SliceIndices(start, stop, step, Len(lst))
        r == PyRange(ind[1], ind[2], ind[3])
    IN  [i \in 1..Len(r) |-> lst[r[i] + 1]]

RECURSIVE Flatten(_)
Flatten(lists) ==
    IF lists = <<>> THEN <<>> ELSE Head(lists) \o Flatten(Tail(lists))

\* RobotColor.slice: the result, or the error raised.
SliceResult(k, start, stop, step) ==
    LET ind == SliceIndices(start, stop, step, Positions)
        sensor_range ==
            PyRange(ind[1] \div SensorSize, (ind[2] - 1) \div SensorSize + 1, 1)
        start2 == ind[1] % SensorSize
        stop2 == ind[2] - SensorSize * (ind[1] \div SensorSize)
    IN  IF \E i \in DOMAIN sensor_range : ~ValidSensor(sensor_range[i])
        THEN [err |-> "ValueError", val |-> <<>>]
        ELSE LET data == Flatten([i \in DOMAIN sensor_range |->
                                     SensorData(sensor_range[i])])
                 cut == ListSlice(data, Arg(start2), Arg(stop2), Arg(ind[3]))
             IN  [err |-> "none",
                  val |-> [i \in DOMAIN cut |-> NormalizeColor(k, cut[i])]]

\* The attributes a RobotColor has.
ColorAttributes ==
    {"_robot", "_driver", "black_k", "red_k", "green_k", "blue_k", "reset",
     "calibrate", "_get_sensor_data", "_normalize_color_comp",
     "_normalize_color", "get", "slice", "all", "__getitem__"}

\* RobotColor.get: the result, or the error raised.
GetResult(k, idx) ==
    LET wrapped == IF idx < 0 THEN idx + Positions ELSE idx
        sensor_idx == wrapped \div SensorSize
        slot == wrapped % SensorSize
    IN  IF "_get_sensor" \notin ColorAttributes
        THEN [err |-> "AttributeError", val |-> <<>>]
        ELSE IF ~ValidSensor(sensor_idx)
        THEN [err |-> "ValueError", val |-> <<>>]
        ELSE [err |-> "none",
              val |-> NormalizeColor(k, SensorData(sensor_idx)[slot + 1])]

\* The arguments tried: every integer within ArgMax of 0 and None, every step
\* within StepMax of 0 but 0 itself (which slice().indices rejects) and None.
ArgMax == 33
StepMax == 3
IntArgs == {Arg(n) : n \in (-ArgMax)..ArgMax} \cup {NoArg}
StepArgs == {Arg(n) : n \in ((-StepMax)..StepMax) \ {0}} \cup {NoArg}

\* The calls a caller can make on the colour reader.
ColorCalls ==
    {[op |-> "slice", args |-> <<start, stop, step>>] :
        start \in IntArgs, stop \in IntArgs, step \in StepArgs}
    \cup {[op |-> "all", args |-> <<>>]}
    \cup {[op |-> "get", args |-> <<idx>>] : idx \in (-ArgMax)..ArgMax}

\* colCall is the call made, colResult what it has returned so far.
Slice ==
    /\ pc = "body"
    /\ reader.call.op = "slice" /\ reader.result = NoResult
    /\ reader' = [reader EXCEPT !.result =
          SliceResult(reader.calib, reader.call.args[1], reader.call.args[2],
                      reader.call.args[3])]
    /\ UNCHANGED nonColorVars

All ==
    /\ pc = "body"
    /\ reader.call.op = "all" /\ reader.result = NoResult
    /\ reader' = [reader EXCEPT !.result =
          SliceResult(reader.calib, NoArg, NoArg, NoArg)]
    /\ UNCHANGED nonColorVars

Get ==
    /\ pc = "body"
    /\ reader.call.op = "get" /\ reader.result = NoResult
    /\ reader' = [reader EXCEPT !.result =
          GetResult(reader.calib, reader.call.args[1])]
    /\ UNCHANGED nonColorVars

\* An open session with default calibration and one call made on the colour
\* reader.
ColorCallInit ==
    /\ Opened /\ EngineInit /\ LedInit /\ EnableInit /\ NoRun
    /\ reader \in {[calib |-> COLOR_CALIBRATION, call |-> c,
                     result |-> NoResult] : c \in ColorCalls}

ColorNext == Slice \/ All \/ Get

ColorSpec == ColorCallInit /\ [][ColorNext]_vars

\* RobotColor.calibrate: only the denominators given are replaced; k is
\* <<black, red, green, blue>>, each NoArg or a value.
Calibrate(k) ==
    /\ pc = "body"
    /\ reader.result = NoResult
    /\ reader' = [reader EXCEPT !.calib =
          [black |-> IF k[1] # NoArg THEN k[1][1] ELSE reader.calib.black,
           red   |-> IF k[2] # NoArg THEN k[2][1] ELSE reader.calib.red,
           green |-> IF k[3] # NoArg THEN k[3][1] ELSE reader.calib.green,
           blue  |-> IF k[4] # NoArg THEN k[4][1] ELSE reader.calib.blue]]
    /\ UNCHANGED nonColorVars

\* RobotColor.reset: calibrate(**COLOR_CALIBRATION).
Reset ==
    /\ reader.result = NoResult
    /\ Calibrate(<<Arg(COLOR_CALIBRATION.black), Arg(COLOR_CALIBRATION.red),
                   Arg(COLOR_CALIBRATION.green), Arg(COLOR_CALIBRATION.blue)>>)

\* _normalize_color applied to the raw readings of one position.
Normalize ==
    /\ pc = "body"
    /\ reader.call.op = "normalize" /\ reader.result = NoResult
    /\ reader' = [reader EXCEPT !.result =
          [err |-> "none",
           val |-> NormalizeColor(reader.calib, reader.call.args)]]
    /\ UNCHANGED nonColorVars

\* The raw readings tried: multiples of RawStep up to MaxRawSteps of them.
RawStep == 75
MaxRawSteps == 4
RawValues == {i * RawStep : i \in 0..MaxRawSteps}
\* The denominators tried, besides the defaults.
KValues == {1, 255}
\* The calibrate calls tried: one denominator given, or all four.
KArgs ==
    {k \in [1..4 -> {Arg(v) : v \in KValues} \cup {NoArg}] :
        Cardinality({i \in 1..4 : k[i] # NoArg}) = 1}
    \cup {[i \in 1..4 |-> Arg(v)] : v \in KValues}

\* An open session with default calibration and the readings of one position
\* about to be normalized.
NormInit ==
    /\ Opened /\ EngineInit /\ LedInit /\ EnableInit /\ NoRun
    /\ reader \in {[calib |-> COLOR_CALIBRATION,
                     call |-> [op |-> "normalize", args |-> raw],
                     result |-> NoResult] :
                       raw \in RawValues \X RawValues \X RawValues \X RawValues}

NormNext ==
    \/ \E k \in KArgs : Calibrate(k)
    \/ Reset
    \/ Normalize

NormSpec == NormInit /\ [][NormNext]_vars

\* C15: with non-negative readings and positive denominators every channel
\* of _normalize_color is in 0..255 and equals
\* min(255, floor(255 * max(c - black, 0) / k_c) + nb) with
\* nb = min(255, floor(255 * black / k_black)); the readings (50, 300, 50, 50)
\* under the default calibration give (137, 31, 31).
C15_NormalizedChannels ==
    /\ NormalizeColor(COLOR_CALIBRATION, <<50, 300, 50, 50>>) = <<137, 31, 31>>
    /\ (reader.call.op = "normalize" /\ reader.result # NoResult) =>
        LET raw == reader.call.args
            nb == Min2(255, (255 * raw[1]) \div reader.calib.black)
            Want(c, k) == Min2(255, ((255 * Max2(c - raw[1], 0)) \div k) + nb)
        IN  /\ reader.result.err = "none"
            /\ \A i \in 1..3 : reader.result.val[i] \in 0..255
            /\ reader.result.val = <<Want(raw[2], reader.calib.red),
                                 Want(raw[3], reader.calib.green),
                                 Want(raw[4], reader.calib.blue)>>

\* A reading with a black level above 0, under a changed calibration, with
\* one channel clamped at 255 and one not.
C15_Witness ==
    /\ reader.call.op = "normalize" /\ reader.result # NoResult
    /\ reader.calib # COLOR_CALIBRATION
    /\ reader.call.args[1] > 0
    /\ \E i, j \in 1..3 :
           reader.result.val[i] = 255 /\ reader.result.val[j] \in 1..254

\* The normalized triple of position p.
TripleAt(p) == NormalizeColor(reader.calib, RawAt(p))
\* all(), were it to return every position in order.
AllTriples == [i \in 1..Positions |-> TripleAt(i - 1)]

\* C13: slice(start, stop, step) returns the normalized triples of the
\* positions range(*slice(start, stop, step).indices(32)), in that order,
\* which is all()[start:stop:step]; slice(5, 12) returns the 7 triples of
\* positions 5..11.
C13_SliceMatchesPythonSlice ==
    (reader.call.op = "slice" /\ reader.result # NoResult) =>
        LET a == reader.call.args
            ind == SliceIndices(a[1], a[2], a[3], Positions)
            want == PyRange(ind[1], ind[2], ind[3])
        IN  /\ reader.result.err = "none"
            /\ reader.result.val = [i \in DOMAIN want |-> TripleAt(want[i])]
            /\ reader.result.val = ListSlice(AllTriples, a[1], a[2], a[3])
            /\ a = <<Arg(5), Arg(12), NoArg>> =>
                   reader.result.val = [i \in 1..7 |-> TripleAt(i + 4)]

\* C14: for -32 <= p <= 31, get(p) succeeds and returns the triple of slot
\* (p mod 32) mod 8 of sensor (p mod 32) div 8.
C14_GetReturnsWrappedPosition ==
    (reader.call.op = "get" /\ reader.result # NoResult
        /\ reader.call.args[1] >= -Positions /\ reader.call.args[1] < Positions) =>
        LET q == reader.call.args[1] % Positions
        IN  /\ reader.result.err = "none"
            /\ reader.result.val =
                   NormalizeColor(reader.calib,
                       SensorData(q \div SensorSize)[(q % SensorSize) + 1])

\* ------------------------------------------------- enabling event sources
nonEnableVars == <<engineVars, built, ledVars, colorVars, runVars>>

\* RobotEvents.enable(devices): driver.enable_events(devices), after which
\* the robot reports these devices too; by is the method the caller used.
EnableEvents(by, devices) ==
    /\ pc = "body"
    /\ en' = [enabled |-> en.enabled \cup devices,
              sent |-> [by |-> by, op |-> "enable_events", devs |-> devices],
              reported |-> <<>>]
    /\ UNCHANGED nonEnableVars

\* RobotEvents.disable(devices): driver.disable_events(devices).
DisableEvents(by, devices) ==
    /\ pc = "body"
    /\ en' = [enabled |-> en.enabled \ devices,
              sent |-> [by |-> by, op |-> "disable_events", devs |-> devices],
              reported |-> <<>>]
    /\ UNCHANGED nonEnableVars

\* Variant of DisableAll that goes through disable.
DisableAllDisables == DisableEvents("disable_all", ALL)

Enable(devices) == EnableEvents("enable", devices)
EnableAll == EnableEvents("enable_all", ALL)
Disable(devices) == DisableEvents("disable", devices)
\* disable_all calls self.enable(driver.Devices.ALL).
DisableAll == EnableEvents("disable_all", ALL)

\* RobotEvents.get_enabled
GetEnabled ==
    /\ pc = "body"
    /\ en' = [en EXCEPT !.reported = <<en.enabled>>]
    /\ UNCHANGED nonEnableVars

EnableNext ==
    \/ \E devices \in SUBSET DeviceSet : Enable(devices)
    \/ EnableAll
    \/ \E devices \in SUBSET DeviceSet : Disable(devices)
    \/ DisableAll
    \/ GetEnabled

EnableSpec == OpenedInit /\ [][EnableNext]_vars

\* C16: disable_all sends the request enable_all sends, enable_events for
\* all devices, never a disable request; get_enabled after either reports
\* the same set, every device.
C16_DisableAllEnablesAll ==
    /\ en.sent.by = "disable_all" =>
           en.sent.op = "enable_events" /\ en.sent.devs = ALL
    /\ en.sent.by \in {"enable_all", "disable_all"} =>
           /\ en.enabled = ALL
           /\ en.reported # <<>> => en.reported[1] = ALL

\* disable_all was called and get_enabled asked afterwards.
C16_Witness ==
    en.sent.by = "disable_all" /\ en.reported # <<>>

\* ---------------------------------------------------------------- run_robot
\* run_robot(timeout, init, **callbacks), one step per await or call of its
\* body and of get_robot.

\* Variant of AfterOpen: enable_all is awaited whatever init is.
AfterOpenAlwaysEnables(init) == "enable"

\* `if init: await robot.events.enable_all()`: the step after the open.
AfterOpen(init) == IF init THEN "enable" ELSE "register"

\* get_robot: discover(), then robots[0].
RunDiscover(found) ==
    /\ run.pc = "discover"
    /\ run' = [run EXCEPT !.steps = Append(@, "discover"),
                          !.pc = IF found THEN "open" ELSE "raised"]
    /\ pc' = IF found THEN "discovered" ELSE "error"
    /\ UNCHANGED <<ledVars, colorVars, enableVars>>
    /\ UNCHANGED <<ctx, drv, events, color, entered, released, closeCalls,
                   closeRaised, built>>
    /\ UNCHANGED <<emitted, buffer, tableVars, loopVars, taskVars>>

\* `async with robots[0] as robot`: Robot.__aenter__.
RunOpen(openOk, calibOk) ==
    /\ run.pc = "open"
    /\ run' = [run EXCEPT !.steps = Append(@, "open"),
                          !.pc = IF openOk /\ calibOk THEN AfterOpen(run.init)
                                 ELSE "raised"]
    /\ ctx' = "set"
    /\ IF ~openOk
       THEN /\ pc' = "error"
            /\ UNCHANGED <<drv, events, color, entered, built>>
       ELSE /\ drv' = "set"
            /\ entered' = entered + 1
            /\ events' = "built"
            /\ color' = IF calibOk THEN "built" ELSE "none"
            /\ built' = Constructed(calibOk)
            /\ pc' = IF calibOk THEN "body" ELSE "error"
    /\ UNCHANGED <<ledVars, colorVars, enableVars>>
    /\ UNCHANGED <<released, closeCalls, closeRaised>>
    /\ UNCHANGED <<emitted, buffer, tableVars, loopVars, taskVars>>

\* `await robot.events.enable_all()`; ok: the request succeeds and run_robot
\* is not cancelled while it waits.
RunEnableAll(ok) ==
    /\ run.pc = "enable"
    /\ run' = [run EXCEPT !.steps = Append(@, "enable_all"),
                          !.pc = IF ok THEN "register" ELSE "exit"]
    /\ en' = [enabled |-> IF ok THEN en.enabled \cup ALL ELSE en.enabled,
              sent |-> [by |-> "enable_all", op |-> "enable_events",
                        devs |-> ALL],
              reported |-> <<>>]
    /\ UNCHANGED <<ledVars, colorVars, built>>
    /\ UNCHANGED engineVars

\* The callbacks given to run_robot as a keyword mapping.
RunMapping == [k \in run.callbacks |-> "handler"]

\* `robot.events.set_callbacks(**callbacks)`
RunRegister ==
    /\ run.pc = "register"
    /\ run' = [run EXCEPT !.steps = Append(@, "register"), !.pc = "process"]
    /\ regs' = regs \o [i \in 1..Len(KeysOf(RunMapping)) |->
                            Registration(KeysOf(RunMapping)[i])]
    /\ table' = DictUpdate(table, KeysOf(RunMapping), Len(regs))
    /\ UNCHANGED <<ledVars, colorVars, enableVars, built>>
    /\ UNCHANGED <<robotVars, emitted, buffer, loopVars, taskVars>>

\* `await robot.events.process()`: wait and loop are True, run_robot runs the
\* loop itself.
RunProcess ==
    /\ run.pc = "process"
    /\ run' = [run EXCEPT !.steps = Append(@, "process"), !.pc = "loop"]
    /\ iter' = [mode |-> "process", loop |-> TRUE, st |-> "created", k |-> 0,
                snap |-> 0]
    /\ UNCHANGED <<handle, cancelled, pulled, yielded, received, invoked>>
    /\ UNCHANGED <<ledVars, colorVars, enableVars, built>>
    /\ UNCHANGED <<robotVars, emitted, buffer, tableVars, taskVars>>

\* The event stream of the driver finishes (the robot is disconnected, by a
\* callback calling robot.disconnect() or from outside) while no event is
\* queued: the `async for` of the loop ends.
RunStreamEnd ==
    /\ run.pc = "loop"
    /\ Resumable(iter.st)
    /\ buffer = <<>>
    /\ iter' = [iter EXCEPT !.st = "done"]
    /\ UNCHANGED <<handle, cancelled, pulled, yielded, received, invoked>>
    /\ UNCHANGED <<sessionVars, emitted, buffer, tableVars, taskVars>>

\* How the body of the scope has ended, if it has.
RunEnded ==
    IF run.pc = "exit" THEN "raise"
    ELSE IF run.pc = "loop" /\ iter.st = "done" THEN "return"
    ELSE IF run.pc = "loop" /\ iter.st = "failed" THEN "raise"
    ELSE IF run.pc = "loop" /\ iter.st = "cancelled" THEN "cancel"
    ELSE "no"

\* The body of the `async with` of get_robot has ended: Robot.__aexit__ is
\* called and awaits the exit of the transport context.
RunExit ==
    /\ RunEnded \in ExitPaths
    /\ run' = [run EXCEPT !.steps = Append(@, "release"),
                          !.pc = IF RunEnded = "return" THEN "release_return"
                                 ELSE "release_raise"]
    /\ AExit
    /\ pc' = IF AExitRaises THEN "left" ELSE "exiting"
    /\ UNCHANGED <<ledVars, colorVars, enableVars, built>>
    /\ UNCHANGED <<events, color, entered>>
    /\ UNCHANGED <<emitted, buffer, tableVars, loopVars, taskVars>>

\* Robot.__aexit__ goes on and ends, then run_robot returns or the exception
\* (of the body, of the exit, or the cancellation) goes on to its caller.
RunExitResume(outcome) ==
    /\ run.pc \in {"release_return", "release_raise"}
    /\ pc = "exiting"
    /\ run' = [run EXCEPT !.pc = IF run.pc = "release_return"
                                    /\ outcome = "return"
                                 THEN "returned" ELSE "raised"]
    /\ AExitResume(outcome)
    /\ pc' = "left"
    /\ UNCHANGED <<ledVars, colorVars, enableVars, built>>
    /\ UNCHANGED <<events, color, entered>>
    /\ UNCHANGED <<emitted, buffer, tableVars, loopVars, taskVars>>

\* A call of run_robot with some init and some callbacks.
RunRobotInit ==
    /\ RobotInit /\ EngineInit /\ LedInit /\ ColorInit /\ EnableInit
    /\ run \in {[pc |-> "discover", init |-> i, callbacks |-> c, steps |-> <<>>] :
                  i \in BOOLEAN, c \in SUBSET Kinds}

RunNext ==
    \/ \E found \in BOOLEAN : RunDiscover(found)
    \/ \E openOk \in BOOLEAN, calibOk \in BOOLEAN : RunOpen(openOk, calibOk)
    \/ \E ok \in BOOLEAN : RunEnableAll(ok)
    \/ RunRegister
    \/ RunProcess
    \/ \E k \in Kinds : Emit(k)
    \/ \E callOk \in BOOLEAN : Anext(callOk)
    \/ \E callOk \in BOOLEAN : Wake(callOk)
    \/ Cancel
    \/ RunStreamEnd
    \/ TaskStart
    \/ \E t \in 1..MaxEvents, ok \in BOOLEAN : TaskFinish(t, ok)
    \/ RunExit
    \/ \E outcome \in AwaitOutcomes : RunExitResume(outcome)

RunSpec == RunRobotInit /\ [][RunNext]_vars

\* The steps of a complete run that reaches the loop, without the release.
RunOrder(init) ==
    <<"discover", "open">> \o (IF init THEN <<"enable_all">> ELSE <<>>)
        \o <<"register", "process">>

IsPrefix(p, q) == Len(p) <= Len(q) /\ p = SubSeq(q, 1, Len(p))

\* C17: run_robot discovers, opens the first device, enables all events
\* only when init is true, registers the callbacks given, then runs the loop,
\* in this order; no callback is dispatched before all of them are
\* registered; once the loop has ended, by the stream finishing, by an error
\* or by cancellation, the transport is released before run_robot is left,
\* and not while the loop runs.
C17_RunRobotOrder ==
    /\ \/ IsPrefix(run.steps, RunOrder(run.init))
       \/ /\ run.steps # <<>>
          /\ run.steps[Len(run.steps)] = "release"
          /\ IsPrefix(SubSeq(run.steps, 1, Len(run.steps) - 1),
                      RunOrder(run.init))
          /\ "open" \in Range(run.steps)
    /\ (invoked # <<>> \/ iter.mode # "none") =>
          /\ "register" \in Range(run.steps)
          /\ \A k \in run.callbacks : DictGet(table, k) # None
    /\ "process" \in Range(run.steps) =>
          /\ released > 0 <=> "release" \in Range(run.steps)
          /\ "release" \in Range(run.steps) =>
                 iter.st \in {"done", "failed", "cancelled"}
          /\ run.pc \in {"returned", "raised"} => released = 1
          /\ run.pc = "returned" => ctx = "none"

\* A run with init true whose loop dispatched a callback and was then ended
\* by cancellation, after which the transport was released.
C17_Witness ==
    /\ run.init /\ run.steps = RunOrder(TRUE) \o <<"release">>
    /\ invoked # <<>>
    /\ iter.st = "cancelled"
    /\ released = 1

\* C18: once the session has been released (the exit of the transport
\* context has returned and Robot.__aexit__ has reset its fields), no callback
\* task spawned by its loop starts and none goes on running: every task has
\* finished by the time the scope is left, or never runs afterwards.
C18_NoTaskRunsAfterRelease ==
    [][(released > 0 /\ ctx = "none") =>
           \A t \in DOMAIN tstate : tstate'[t] = tstate[t]]_vars

\* Manual iteration over the events of an open session: the caller registers
\* callbacks, iterates with `async for` or current(), and may be cancelled.
ManualNext ==
    \/ \E k \in Kinds : Emit(k)
    \/ \E t \in Kinds \cup EventTypes : SetCallback(t)
    \/ \E m \in Mappings : SetCallbacks(m)
    \/ Aiter
    \/ Current
    \/ \E callOk \in BOOLEAN : Anext(callOk)
    \/ \E callOk \in BOOLEAN : Wake(callOk)
    \/ Cancel
    \/ TaskStart
    \/ \E t \in 1..MaxEvents, ok \in BOOLEAN : TaskFinish(t, ok)

ManualSpec == OpenedInit /\ [][ManualNext]_vars

\* C19: in manual iteration dispatch follows the consumer: every event handed
\* to the consumer had its handler task spawned by then (when a handler was
\* stored for its kind), no event is taken and no handler spawned beyond the
\* elements the consumer asked for, and the events not yet asked for stay
\* queued in order.
C19_ManualDispatchIsPullDriven ==
    Manual(iter.mode) =>
        /\ received = SubSeq(pulled, 1, Len(received))
        /\ Len(pulled) <= Len(received) + 1
        /\ Len(pulled) > Len(received) => iter.st = "failed"
        /\ pulled \o buffer = Upto(Len(emitted))
        /\ \A t \in DOMAIN invoked : invoked[t].ev \in Range(pulled)
        /\ \A e \in Range(pulled) :
               RegsBefore(KindOf(e), PulledAt(e)) # {} =>
                   \E t \in DOMAIN invoked : invoked[t].ev = e

\* The consumer holds the first event, whose handler was spawned, and has not
\* asked for the second, which is queued with a handler stored for it.
C19_Witness ==
    /\ iter.mode = "aiter" /\ iter.st = "ready"
    /\ Len(received) = 1 /\ Len(invoked) = 1
    /\ invoked[1].ev = received[1]
    /\ buffer # <<>>
    /\ DictGet(table, KindOf(Head(buffer))) # None

\* C11: when acquisition fails before the transport context is entered
\* (discovery returned no device, or opening the transport failed), the
\* caller gets an error instead of a robot, no component was constructed, no
\* callback was registered or dispatched, and no transport is open.
C11_FailedAcquisitionBuildsNothing ==
    (pc \notin {"start", "discovered"} /\ entered = 0) =>
        /\ pc = "error"
        /\ built = {} /\ events = "none" /\ color = "none"
        /\ table = {} /\ regs = <<>> /\ invoked = <<>>
        /\ drv = "none" /\ released = 0

\* Opening the transport of a discovered device failed.
C11_Witness == pc = "error" /\ ctx = "set" /\ entered = 0

\* Acquisition of a session and use of it while its scope is open.
OpenNext ==
    \/ \E found \in BOOLEAN : Discover(found)
    \/ \E openOk \in BOOLEAN, calibOk \in BOOLEAN : AEnter(openOk, calibOk)
    \/ \E k \in Kinds : Emit(k)
    \/ \E t \in Kinds \cup EventTypes : SetCallback(t)
    \/ \E m \in Mappings : SetCallbacks(m)
    \/ Aiter
    \/ Current
    \/ \E wait \in BOOLEAN, loop \in BOOLEAN : Process(wait, loop)
    \/ \E callOk \in BOOLEAN : Anext(callOk)
    \/ \E callOk \in BOOLEAN : Wake(callOk)
    \/ Cancel
    \/ TaskStart
    \/ \E t \in 1..MaxEvents, ok \in BOOLEAN : TaskFinish(t, ok)

OpenSpec == Init /\ [][OpenNext]_vars

\* The same, with the scope left at any point, Robot.__aexit__ suspended in
\* the exit of the transport context while tasks go on, and Robot.__aexit__
\* called again afterwards.
Next ==
    \/ OpenNext
    \/ \E path \in ExitPaths : ScopeExit(path)
    \/ \E outcome \in AwaitOutcomes : ExitResume(outcome)
    \/ Close

Spec == Init /\ [][Next]_vars
====
